---- MODULE Spec2Model ----
(***************************************************************************)
(* Model of src/src/stdio_server.py: the stdio transport wrapper that      *)
(* mirrors every inbound and outbound message to a TCP sink, falling back  *)
(* to stderr.  Texts are tuples of one-character strings so that strip(),  *)
(* decode() and the framing are computed rather than assumed.              *)
(***************************************************************************)
EXTENDS Integers, Sequences, FiniteSets, TLC

\* ------------------------------------------------------------------ bounds
\* How many times the module body (lines 52-152) may be executed in a process.
MaxInstalls == 2

\* `_log_socket = None`: the value of an unset connection.
None == 0
Sess == {"s1", "s2"}
\* Module instances: instance m is the m-th execution of the module body, with
\* its own globals (_log_socket) and its own logged_stdio_server.
Inst == 1..MaxInstalls
\* Socket objects; one per instance can be referenced, one more is in reserve.
SockIds == 1..(MaxInstalls + 1)

\* ------------------------------------------------------------ message values
\* The result of one serialization capability of an object: it returns a text,
\* is absent (no such attribute) or raises when called.
SerOk(t) == [st |-> "ok", text |-> t]
SerAbsent == [st |-> "absent", text |-> <<>>]
SerRaises == [st |-> "raises", text |-> <<>>]

\* An object that offers model_dump_json / model_dump, or a missing attribute.
Caps(j, d) == [present |-> TRUE, mdj |-> j, md |-> d]
NoAttr == [present |-> FALSE, mdj |-> SerAbsent, md |-> SerAbsent]

\* A message value: its Python type, its characters (str, bytes), the objects
\* reachable as .message.root and .root, its own capabilities, the outcome of
\* str() and of bool().
Value(ty, v, mr, r, j, d, s, b) ==
    [type |-> ty, val |-> v, msgroot |-> mr, root |-> r, mdj |-> j, md |-> d,
     str |-> s, truthy |-> b]

StrVal(t) == Value("str", t, NoAttr, NoAttr, SerAbsent, SerAbsent, SerOk(t), Len(t) > 0)
Obj(mr, r, j, d, s) == Value("obj", <<>>, mr, r, j, d, s, TRUE)

J == <<"{", "j", "}">>
D == <<"{", "d", "}">>
S == <<"<", "o", ">">>

\* bytes.__repr__: b'...' with non-ASCII bytes escaped.
RECURSIVE ReprBody(_)
ReprBody(b) ==
    IF b = <<>> THEN <<>>
    ELSE (IF Head(b) = "xff" THEN <<"\\", "x", "f", "f">> ELSE <<Head(b)>>) \o ReprBody(Tail(b))

BytesRepr(b) == <<"b", "'">> \o ReprBody(b) \o <<"'">>

BytesVal(b) ==
    Value("bytes", b, NoAttr, NoAttr, SerAbsent, SerAbsent, SerOk(BytesRepr(b)), Len(b) > 0)

NoneVal == Value("none", <<>>, NoAttr, NoAttr, SerAbsent, SerAbsent, SerOk(<<"N">>), FALSE)

\* The values that flow through the channel: shapes (a)-(g), with working,
\* absent and failing capabilities, and the falsy values.
Messages ==
    { StrVal(<<>>), StrVal(<<"p">>), StrVal(<<" ", "p", " ">>), StrVal(<<" ">>),
      BytesVal(<<>>), BytesVal(<<"h", "xff">>),
      NoneVal,
      Obj(Caps(SerOk(J), SerOk(D)), NoAttr, SerAbsent, SerAbsent, SerOk(S)),
      Obj(Caps(SerRaises, SerOk(D)), NoAttr, SerAbsent, SerAbsent, SerOk(S)),
      Obj(Caps(SerRaises, SerRaises), NoAttr, SerOk(J), SerOk(D), SerOk(S)),
      Obj(NoAttr, Caps(SerOk(J), SerOk(D)), SerAbsent, SerAbsent, SerOk(S)),
      Obj(NoAttr, Caps(SerAbsent, SerRaises), SerAbsent, SerOk(D), SerOk(S)),
      Obj(NoAttr, NoAttr, SerOk(J), SerOk(D), SerOk(S)),
      Obj(NoAttr, NoAttr, SerRaises, SerOk(D), SerOk(S)),
      Obj(NoAttr, NoAttr, SerAbsent, SerOk(D), SerOk(S)),
      Obj(NoAttr, NoAttr, SerAbsent, SerRaises, SerOk(S)),
      Obj(NoAttr, NoAttr, SerAbsent, SerAbsent, SerOk(S)),
      Obj(NoAttr, NoAttr, SerAbsent, SerAbsent, SerRaises),
      Value("obj", <<>>, NoAttr, NoAttr, SerAbsent, SerAbsent, SerOk(<<"[", "]">>), FALSE) }

\* ------------------------------------------------------------------ encoder
IsSpace(c) == c \in {" ", "\n", "\t"}

RECURSIVE LStrip(_)
LStrip(t) == IF t # <<>> /\ IsSpace(Head(t)) THEN LStrip(Tail(t)) ELSE t

RECURSIVE RStrip(_)
RStrip(t) ==
    IF t # <<>> /\ IsSpace(t[Len(t)]) THEN RStrip(SubSeq(t, 1, Len(t) - 1)) ELSE t

\* A trim of the trailing whitespace only, as str.rstrip().
TrailingOnly(t) == RStrip(t)

\* str.strip(): whitespace removed at both ends.
Strip(t) == RStrip(LStrip(t))

DecodeByte(c) == IF c = "xff" THEN "\\ufffd" ELSE c

\* bytes.decode('utf-8', errors='replace').
Decode(b) == [i \in 1..Len(b) |-> DecodeByte(b[i])]

\* obj.model_dump_json(): AttributeError when absent, or the call raises.
ModelDumpJson(c) == IF c.mdj.st = "ok" THEN c.mdj ELSE SerRaises

\* json.dumps(obj.model_dump()).
JsonDumps(c) == IF c.md.st = "ok" THEN c.md ELSE SerRaises

SelfCaps(v) == [present |-> TRUE, mdj |-> v.mdj, md |-> v.md]

\* A plan of the handler's if/elif chain for one value: the serialization
\* attempts in order, and whether the first sits in a try whose bare except
\* runs the second.
Plan(g, a) == [guarded |-> g, attempts |-> a]

\* if/elif chain shared by logged_receive and logged_send below the
\* str/bytes tests.
StructuredPlan(v) ==
    IF v.msgroot.present THEN Plan(TRUE, <<ModelDumpJson(v.msgroot), JsonDumps(v.msgroot)>>)
    ELSE IF v.root.present THEN Plan(TRUE, <<ModelDumpJson(v.root), JsonDumps(v.root)>>)
    ELSE IF v.mdj.st # "absent" THEN Plan(FALSE, <<ModelDumpJson(SelfCaps(v))>>)
    ELSE IF v.md.st # "absent" THEN Plan(FALSE, <<JsonDumps(SelfCaps(v))>>)
    ELSE Plan(FALSE, <<v.str>>)

ReceivePlan(v) ==
    IF v.type = "str" THEN Plan(FALSE, <<SerOk(Strip(v.val))>>)
    ELSE StructuredPlan(v)

SendPlan(v) ==
    IF v.type = "str" THEN Plan(FALSE, <<SerOk(v.val)>>)
    ELSE IF v.type = "bytes" THEN Plan(FALSE, <<SerOk(Decode(v.val))>>)
    ELSE StructuredPlan(v)

WritePlan(v) ==
    IF v.type = "str" THEN Plan(FALSE, <<SerOk(v.val)>>)
    ELSE IF v.type = "bytes" THEN Plan(FALSE, <<SerOk(Decode(v.val))>>)
    ELSE IF v.mdj.st # "absent" THEN Plan(FALSE, <<ModelDumpJson(SelfCaps(v))>>)
    ELSE IF v.md.st # "absent" THEN Plan(FALSE, <<JsonDumps(SelfCaps(v))>>)
    ELSE Plan(FALSE, <<v.str>>)

PlanOf(k, v) ==
    IF k = "receive" THEN ReceivePlan(v)
    ELSE IF k = "send" THEN SendPlan(v)
    ELSE WritePlan(v)

INPUT == <<"I", "N", "P", "U", "T", ":", " ">>
OUTPUT == <<"O", "U", "T", "P", "U", "T", ":", " ">>

Tag(k) == IF k = "receive" THEN INPUT ELSE OUTPUT

\* The f-string handed to _tcp_write.
Line(k, t) == Tag(k) \o t

\* A handler without the emptiness test.
AlwaysTruthy(v) == TRUE

\* `if line:` / `if data:`.
Truthy(v) == v.truthy

\* A frame with a separator of four dashes.
FourDashFrame(l) == <<"-", "-", "-", "-", "\n">> \o l \o <<"\n">>

\* The bytes handed to sock.sendall: five dashes, newline, message, newline.
Frame(l) == <<"-", "-", "-", "-", "-", "\n">> \o l \o <<"\n">>

\* The text handed to sys.stderr.write: message, newline.
ErrText(l) == l \o <<"\n">>

\* -------------------------------------------------------------------- state
VARIABLES
    sessions,      \* the sessions this process will run
    universe,      \* the message values that flow through its channels
    installs,      \* how many times the module body has run (lines 52-152)
    _log_socket,   \* per module instance: the global _log_socket (None or a socket)
    sockState,     \* per socket object: free, created, connected, peer_closed
    lastWrite,     \* per module instance: how its latest sendall ended, until the next connect
    everConnected, \* whether a connect has succeeded in this process
    running,       \* the coroutine that holds the event loop, or "none"
    pc,            \* per session: where its coroutine stands
    depth,         \* per session: how many wrappers its streams carry
    op,            \* per session: the wrapped operation in progress
    data,          \* per session: the value sent, or the value received
    level,         \* per session: the wrapper (module instance) now executing
    att,           \* per session: which serialization attempt of the plan runs
    line,          \* per session: the argument of _tcp_write
    sock,          \* per session: the local `sock` of _tcp_write
    trace,         \* per session: what the operation in progress has done so far
    origArg,       \* per session: the argument the original operation was given
    origRes,       \* per session: what the original operation returned or raised
    result,        \* per session: what the wrapped operation returned or raised
    unsent,        \* sessions whose OUTPUT line is out and whose original send is
                   \* not invoked yet, in the order of the lines
    carried        \* per loaded module: how the last session to end while the
                   \* module's connection was up ended ("no": none has)

procVars == <<op, data, level, att, line, sock, trace, origArg, origRes, result>>
netVars == <<_log_socket, sockState, lastWrite, everConnected>>
vars == <<sessions, universe, installs, _log_socket, sockState, lastWrite, everConnected, running, pc,
          depth, op, data, level, att, line, sock, trace, origArg, origRes, result, unsent, carried>>

\* What an operation returns or raises.
Ret(v) == [k |-> "ret", v |-> v, exc |-> "none"]
Raise(e) == [k |-> "raise", v |-> NoneVal, exc |-> e]
NoResult == [k |-> "pending", v |-> NoneVal, exc |-> "none"]

\* Errors of the wrapped transport, and errors of the mirroring path.
OrigErrors == {"EndOfStream", "ClosedResourceError"}
MirrorErrors == {"SerializationError", "StderrError"}

\* One entry of an operation's trace.
Event(e, ok, m, t) == [e |-> e, ok |-> ok, m |-> m, text |-> t]

InitWith(ss, u) ==
    /\ sessions = ss
    /\ universe = u
    /\ installs = 1
    /\ _log_socket = [m \in Inst |-> None]
    /\ sockState = [i \in SockIds |-> "free"]
    /\ lastWrite = [m \in Inst |-> "none"]
    /\ everConnected = FALSE
    /\ running = "none"
    /\ pc = [s \in Sess |-> "out"]
    /\ depth = [s \in Sess |-> 0]
    /\ op = [s \in Sess |-> "none"]
    /\ data = [s \in Sess |-> NoneVal]
    /\ level = [s \in Sess |-> 0]
    /\ att = [s \in Sess |-> 0]
    /\ line = [s \in Sess |-> <<>>]
    /\ sock = [s \in Sess |-> None]
    /\ trace = [s \in Sess |-> <<>>]
    /\ origArg = [s \in Sess |-> NoneVal]
    /\ origRes = [s \in Sess |-> NoResult]
    /\ result = [s \in Sess |-> NoResult]
    /\ unsent = <<>>
    /\ carried = [m \in Inst |-> "no"]

\* The process as it is started: the module body has run once, one session
\* at a time talks over stdio.
Init == InitWith({"s1"}, Messages)

\* ------------------------------------------------------------- installation
\* The module body runs again under another module name (run as __main__ and
\* imported as src.stdio_server): original_stdio_server is the factory then in
\* place, already wrapped, and the new logged_stdio_server replaces it.
Install ==
    /\ running = "none"
    /\ installs < MaxInstalls
    /\ installs' = installs + 1
    /\ UNCHANGED <<sessions, universe, carried, unsent, netVars, running, pc, depth, procVars>>

\* async with stdio_server() as (read_stream, write_stream): every installed
\* wrapper wraps the streams once.
EnterSession(s) ==
    /\ running = "none"
    /\ s \in sessions
    /\ pc[s] = "out"
    /\ pc' = [pc EXCEPT ![s] = "idle"]
    /\ depth' = [depth EXCEPT ![s] = installs]
    /\ UNCHANGED <<sessions, universe, carried, unsent, installs, netVars, running, procVars>>

\* A wrapper that drops the connection when its session ends.
CloseOnSessionExit(old) == None

\* What the end of a session leaves in _log_socket: wrapper() has no cleanup
\* after its yield, the module global is left alone.
OnSessionExit(old) == old

\* The connections that are up when a session ends in the way `how`.
Carried(how) ==
    [m \in Inst |->
        IF _log_socket[m] # None /\ sockState[_log_socket[m]] \in {"connected", "peer_closed"}
        THEN how ELSE carried[m]]

\* The session's scoped context exits.
ExitSession(s) ==
    /\ running = "none"
    /\ pc[s] = "idle"
    /\ pc' = [pc EXCEPT ![s] = "out"]
    /\ depth' = [depth EXCEPT ![s] = 0]
    /\ _log_socket' = [m \in Inst |-> OnSessionExit(_log_socket[m])]
    /\ carried' = Carried("exit")
    /\ UNCHANGED <<sessions, universe, unsent, installs, sockState, lastWrite, everConnected, running,
                   procVars>>

\* The session is torn down while its coroutine is suspended in the awaited
\* original receive or send: the cancellation is raised at the await, no
\* handler of the wrappers encloses it, and the scoped context exits.
Cancel(s) ==
    /\ running = "none"
    /\ pc[s] = "orig_wait"
    /\ op[s] \in {"receive", "send"}
    /\ pc' = [pc EXCEPT ![s] = "out"]
    /\ depth' = [depth EXCEPT ![s] = 0]
    /\ _log_socket' = [m \in Inst |-> OnSessionExit(_log_socket[m])]
    /\ op' = [op EXCEPT ![s] = "none"]
    /\ data' = [data EXCEPT ![s] = NoneVal]
    /\ level' = [level EXCEPT ![s] = 0]
    /\ att' = [att EXCEPT ![s] = 0]
    /\ line' = [line EXCEPT ![s] = <<>>]
    /\ trace' = [trace EXCEPT ![s] = <<>>]
    /\ origArg' = [origArg EXCEPT ![s] = NoneVal]
    /\ origRes' = [origRes EXCEPT ![s] = NoResult]
    /\ result' = [result EXCEPT ![s] = NoResult]
    /\ carried' = Carried("cancel")
    /\ UNCHANGED <<sessions, universe, unsent, installs, sockState, lastWrite, everConnected, running,
                   sock>>

\* ------------------------------------------------------------ control flow
\* Handlers that all delegate to the original operation first.
DelegateFirst(k) == "orig_call"

\* The first statement of a handler: logged_receive awaits the original
\* receive, logged_send and logged_write test and mirror the value.
FirstPc(k) == IF k = "receive" THEN "orig_call" ELSE "mirror"

\* The wrapper that runs first: for send/write the outermost one.
FirstLevel(k, d) == IF k = "receive" THEN 0 ELSE d

\* Where control goes when the mirroring of wrapper `lvl` is through:
\* send/write delegate inward (original_send at the innermost wrapper),
\* receive returns outward (to the caller at the outermost wrapper).
AfterMirror(k, lvl, d) ==
    IF k = "receive"
    THEN IF lvl = d THEN [pc |-> "return", level |-> lvl]
         ELSE [pc |-> "mirror", level |-> lvl + 1]
    ELSE IF lvl = 1 THEN [pc |-> "orig_call", level |-> 0]
         ELSE [pc |-> "mirror", level |-> lvl - 1]

\* Where control goes when the original operation has returned normally.
AfterOrig(k) == IF k = "receive" THEN "mirror" ELSE "return"

\* `return line` / `return await original_send(data)` / `return original_write(data)`.
WrappedResult(k, v, r) == IF k = "receive" THEN Ret(v) ELSE r

\* A wrapper that catches the original operation's error and returns None.
Swallowed(r) == Ret(NoneVal)

\* What the caller sees when the original operation raises: no handler of
\* the wrappers encloses the original call, the exception passes as it is.
Propagated(r) == r

\* What the original operations can return.
OrigResults(k) ==
    IF k = "receive" THEN {Ret(v) : v \in universe}
    ELSE IF k = "send" THEN {Ret(NoneVal)}
    ELSE {Ret(NoneVal), Ret(StrVal(<<"p">>))}

\* Handlers run as threads: one starts while another is inside its mirroring.
Preemptive(s) == TRUE

\* A coroutine starts to run only when no other coroutine is inside a
\* synchronous stretch: the handlers and _tcp_write await nothing but the
\* original receive and send.
LoopFree(s) == running = "none"

\* A caller invokes receive(), send(data) or write(data) on the session's streams.
Call(s, k, v) ==
    /\ LoopFree(s)
    /\ pc[s] = "idle"
    /\ running' = s
    /\ op' = [op EXCEPT ![s] = k]
    /\ data' = [data EXCEPT ![s] = IF k = "receive" THEN NoneVal ELSE v]
    /\ level' = [level EXCEPT ![s] = FirstLevel(k, depth[s])]
    /\ pc' = [pc EXCEPT ![s] = FirstPc(k)]
    /\ trace' = [trace EXCEPT ![s] = <<>>]
    /\ UNCHANGED <<sessions, universe, carried, unsent, installs, netVars, depth, att, line, sock, origArg, origRes, result>>

\* `if line:` / `if data:` at the head of the mirroring block.
Mirror(s) ==
    /\ running = s
    /\ pc[s] = "mirror"
    /\ IF Truthy(data[s])
       THEN /\ pc' = [pc EXCEPT ![s] = "encode"]
            /\ att' = [att EXCEPT ![s] = 1]
            /\ UNCHANGED level
       ELSE LET n == AfterMirror(op[s], level[s], depth[s]) IN
            /\ pc' = [pc EXCEPT ![s] = n.pc]
            /\ level' = [level EXCEPT ![s] = n.level]
            /\ UNCHANGED att
    /\ UNCHANGED <<sessions, universe, carried, unsent, installs, netVars, running, depth, op, data, line, sock, trace,
                   origArg, origRes, result>>

\* An exception leaves the mirroring block of a handler: inside the try of a
\* guarded first attempt the bare except runs the second attempt, anywhere
\* else the exception leaves the wrapped operation.
MirrorRaises(s, e) ==
    IF PlanOf(op[s], data[s]).guarded /\ att[s] = 1
    THEN /\ att' = [att EXCEPT ![s] = 2]
         /\ pc' = [pc EXCEPT ![s] = "encode"]
         /\ UNCHANGED result
    ELSE /\ result' = [result EXCEPT ![s] = Raise(e)]
         /\ pc' = [pc EXCEPT ![s] = "done"]
         /\ UNCHANGED att

\* The serialization call inside the f-string, then the call of _tcp_write.
Encode(s) ==
    /\ running = s
    /\ pc[s] = "encode"
    /\ LET a == PlanOf(op[s], data[s]).attempts[att[s]] IN
       IF a.st = "ok"
       THEN /\ line' = [line EXCEPT ![s] = Line(op[s], a.text)]
            /\ trace' = [trace EXCEPT ![s] =
                            Append(@, Event("tcp_write", TRUE, level[s], Line(op[s], a.text)))]
            /\ pc' = [pc EXCEPT ![s] = "get_socket"]
            /\ UNCHANGED <<att, result>>
       ELSE /\ MirrorRaises(s, "SerializationError")
            /\ trace' = [trace EXCEPT ![s] = Append(@, Event("serialize", FALSE, level[s], <<>>))]
            /\ UNCHANGED line
    /\ UNCHANGED <<sessions, universe, carried, unsent, installs, netVars, running, depth, op, data, level, sock,
                   origArg, origRes>>

\* ------------------------------------------------ _get_log_socket, _tcp_write
\* socket.socket(...): a socket object not in use.
NewSocket == CHOOSE i \in SockIds : sockState[i] = "free" /\ \A j \in SockIds : sockState[j] = "free" => i <= j

\* The sessions with an OUTPUT line out, once _tcp_write of session s has
\* got its line to a destination.
Emitted(s) == IF op[s] = "send" THEN Append(unsent, s) ELSE unsent

\* _tcp_write returns normally to the handler, whose mirroring block is through.
TcpWriteReturns(s) ==
    LET n == AfterMirror(op[s], level[s], depth[s]) IN
    /\ pc' = [pc EXCEPT ![s] = n.pc]
    /\ level' = [level EXCEPT ![s] = n.level]
    /\ sock' = [sock EXCEPT ![s] = None]

\* _get_log_socket, lines 24-27 and 33: the stored socket, or a new socket
\* object stored in _log_socket before it is connected.
GetSocket(s) ==
    /\ running = s
    /\ pc[s] = "get_socket"
    /\ IF _log_socket[level[s]] = None
       THEN /\ \E i \in SockIds : sockState[i] = "free"
            /\ _log_socket' = [_log_socket EXCEPT ![level[s]] = NewSocket]
            /\ sockState' = [sockState EXCEPT ![NewSocket] = "created"]
            /\ trace' = [trace EXCEPT ![s] =
                            Append(@, Event("socket", TRUE, level[s], <<lastWrite[level[s]]>>))]
            /\ pc' = [pc EXCEPT ![s] = "connect"]
            /\ UNCHANGED sock
       ELSE /\ sock' = [sock EXCEPT ![s] = _log_socket[level[s]]]
            /\ trace' = [trace EXCEPT ![s] =
                            Append(@, Event("stored", TRUE, level[s],
                                            <<sockState[_log_socket[level[s]]]>>))]
            /\ pc' = [pc EXCEPT ![s] = "sendall"]
            /\ UNCHANGED <<_log_socket, sockState>>
    /\ UNCHANGED <<sessions, universe, carried, unsent, installs, lastWrite, everConnected, running, depth, op, data, level,
                   att, line, origArg, origRes, result>>

\* A _get_log_socket that keeps the socket whose connect failed.
KeepAfterConnectFailure(old) == old

\* What a failed connect leaves in _log_socket (line 31).
AfterConnectFailure(old) == None

\* _get_log_socket, lines 28-33: connect succeeds and the socket is returned,
\* or fails, _log_socket is reset and None is returned.
Connect(s, ok) ==
    /\ running = s
    /\ pc[s] = "connect"
    /\ LET m == level[s]
           i == _log_socket[m] IN
       /\ trace' = [trace EXCEPT ![s] = Append(@, Event("connect", ok, m, <<>>))]
       /\ lastWrite' = [lastWrite EXCEPT ![m] = "none"]
       /\ everConnected' = (everConnected \/ ok)
       /\ IF ok
          THEN /\ sockState' = [sockState EXCEPT ![i] = "connected"]
               /\ sock' = [sock EXCEPT ![s] = i]
               /\ pc' = [pc EXCEPT ![s] = "sendall"]
               /\ UNCHANGED _log_socket
          ELSE /\ _log_socket' = [_log_socket EXCEPT ![m] = AfterConnectFailure(i)]
               /\ sockState' = [sockState EXCEPT ![i] =
                                   IF AfterConnectFailure(i) = None THEN "free" ELSE @]
               /\ sock' = [sock EXCEPT ![s] = AfterConnectFailure(i)]
               /\ pc' = [pc EXCEPT ![s] = IF AfterConnectFailure(i) = None
                                          THEN "stderr" ELSE "sendall"]
    /\ UNCHANGED <<sessions, universe, carried, unsent, installs, running, depth, op, data, level, att, line, origArg,
                   origRes, result>>

\* A _tcp_write that keeps the socket after a failed sendall.
KeepAfterWriteFailure(old) == old

\* What a failed sendall leaves in _log_socket (lines 44-45).
AfterWriteFailure(old) == None

\* A _tcp_write that only resets the connection when sendall has raised.
DropOnWriteFailure == "return"

\* Where _tcp_write goes when sendall has raised (lines 46-47).
OnWriteFailure == "stderr"

\* _tcp_write, lines 38-47: sendall of the framed message on the socket; when
\* it raises, _log_socket is reset and the message goes to stderr.
Sendall(s, ok) ==
    /\ running = s
    /\ pc[s] = "sendall"
    /\ LET m == level[s]
           i == sock[s] IN
       /\ trace' = [trace EXCEPT ![s] = Append(@, Event("sendall", ok, m, Frame(line[s])))]
       /\ lastWrite' = [lastWrite EXCEPT ![m] =
                           IF ok THEN "ok"
                           ELSE IF sockState[i] = "peer_closed" THEN "closed" ELSE "failed"]
       /\ IF ok
          THEN /\ TcpWriteReturns(s)
               /\ unsent' = Emitted(s)
               /\ UNCHANGED <<_log_socket, sockState, carried>>
          ELSE /\ _log_socket' = [_log_socket EXCEPT ![m] = AfterWriteFailure(i)]
               /\ carried' = [carried EXCEPT ![m] = "no"]
               /\ UNCHANGED unsent
               /\ sockState' = [sockState EXCEPT ![i] =
                                   IF AfterWriteFailure(i) = None THEN "free" ELSE @]
               /\ IF OnWriteFailure = "stderr"
                  THEN /\ pc' = [pc EXCEPT ![s] = "stderr"]
                       /\ UNCHANGED <<level, sock>>
                  ELSE TcpWriteReturns(s)
    /\ UNCHANGED <<sessions, universe, installs, everConnected, running, depth, op, data, att, line,
                   origArg, origRes, result>>

\* _tcp_write, lines 46-47 and 49-50: the message is written to stderr and
\* flushed; neither call is guarded, so a failing stderr raises out of
\* _tcp_write into the handler.
Stderr(s, ok) ==
    /\ running = s
    /\ pc[s] = "stderr"
    /\ trace' = [trace EXCEPT ![s] = Append(@, Event("stderr", ok, level[s], ErrText(line[s])))]
    /\ IF ok
       THEN /\ TcpWriteReturns(s)
            /\ unsent' = Emitted(s)
            /\ UNCHANGED <<att, result>>
       ELSE /\ MirrorRaises(s, "StderrError")
            /\ sock' = [sock EXCEPT ![s] = None]
            /\ UNCHANGED <<level, unsent>>
    /\ UNCHANGED <<sessions, universe, carried, installs, netVars, running, depth, op, data, line, origArg, origRes>>

\* The sink closes a connection it had accepted.
SinkClose(i) ==
    /\ sockState[i] = "connected"
    /\ sockState' = [sockState EXCEPT ![i] = "peer_closed"]
    /\ UNCHANGED <<sessions, universe, carried, unsent, installs, _log_socket, lastWrite, everConnected, running, pc, depth,
                   procVars>>

\* --------------------------------------------------- the original operations
\* original_receive() / original_send(data) / original_write(data) is invoked.
\* receive and send are awaited: the coroutine may be suspended in them.
OrigCall(s) ==
    /\ running = s
    /\ pc[s] = "orig_call"
    /\ trace' = [trace EXCEPT ![s] = Append(@, Event("orig", TRUE, 0, <<>>))]
    /\ origArg' = [origArg EXCEPT ![s] = data[s]]
    /\ pc' = [pc EXCEPT ![s] = "orig_wait"]
    /\ running' = IF op[s] = "write" THEN s ELSE "none"
    /\ unsent' = SelectSeq(unsent, LAMBDA t : t # s)
    /\ UNCHANGED <<sessions, universe, carried, installs, netVars, depth, op, data, level, att, line, sock, origRes,
                   result>>

\* The original operation returns r or raises it; an exception passes through
\* every wrapper, none of which catches around the original call.
OrigReturn(s, r) ==
    /\ pc[s] = "orig_wait"
    /\ running = IF op[s] = "write" THEN s ELSE "none"
    /\ running' = s
    /\ origRes' = [origRes EXCEPT ![s] = r]
    /\ IF r.k = "raise"
       THEN /\ result' = [result EXCEPT ![s] = Propagated(r)]
            /\ pc' = [pc EXCEPT ![s] = "done"]
            /\ UNCHANGED <<data, level>>
       ELSE /\ pc' = [pc EXCEPT ![s] = AfterOrig(op[s])]
            /\ data' = [data EXCEPT ![s] = IF op[s] = "receive" THEN r.v ELSE @]
            /\ level' = [level EXCEPT ![s] = IF op[s] = "receive" THEN 1 ELSE @]
            /\ UNCHANGED result
    /\ UNCHANGED <<sessions, universe, carried, unsent, installs, netVars, depth, op, att, line, sock, trace, origArg>>

\* The outermost wrapper returns to the caller.
Return(s) ==
    /\ running = s
    /\ pc[s] = "return"
    /\ result' = [result EXCEPT ![s] = WrappedResult(op[s], data[s], origRes[s])]
    /\ pc' = [pc EXCEPT ![s] = "done"]
    /\ UNCHANGED <<sessions, universe, carried, unsent, installs, netVars, running, depth, op, data, level, att, line, sock,
                   trace, origArg, origRes>>

\* The caller has its result; the session is ready for the next operation.
Finish(s) ==
    /\ running = s
    /\ pc[s] = "done"
    /\ running' = "none"
    /\ pc' = [pc EXCEPT ![s] = "idle"]
    /\ op' = [op EXCEPT ![s] = "none"]
    /\ data' = [data EXCEPT ![s] = NoneVal]
    /\ level' = [level EXCEPT ![s] = 0]
    /\ att' = [att EXCEPT ![s] = 0]
    /\ line' = [line EXCEPT ![s] = <<>>]
    /\ trace' = [trace EXCEPT ![s] = <<>>]
    /\ origArg' = [origArg EXCEPT ![s] = NoneVal]
    /\ origRes' = [origRes EXCEPT ![s] = NoResult]
    /\ result' = [result EXCEPT ![s] = NoResult]
    /\ unsent' = SelectSeq(unsent, LAMBDA t : t # s)
    /\ UNCHANGED <<sessions, universe, carried, installs, netVars, depth, sock>>

Step(s) ==
    \/ EnterSession(s)
    \/ ExitSession(s)
    \/ Cancel(s)
    \/ \E k \in {"receive", "send", "write"}, v \in universe : Call(s, k, v)
    \/ Mirror(s)
    \/ Encode(s)
    \/ GetSocket(s)
    \/ \E ok \in BOOLEAN : Connect(s, ok)
    \/ \E ok \in BOOLEAN : Sendall(s, ok)
    \/ \E ok \in BOOLEAN : Stderr(s, ok)
    \/ OrigCall(s)
    \/ \E r \in OrigResults(op[s]) \cup {Raise(e) : e \in OrigErrors} : OrigReturn(s, r)
    \/ Return(s)
    \/ Finish(s)

\* The program as it is started: the module body has run once.
Next ==
    \/ \E s \in Sess : Step(s)
    \/ \E i \in SockIds : SinkClose(i)

Spec == Init /\ [][Next]_vars

\* The same program in a process that may execute the module body again.
NextInstall ==
    \/ Next
    \/ Install

SpecInstall == Init /\ [][NextInstall]_vars

\* Two sessions whose coroutines share the event loop and the module globals,
\* over a channel that carries texts and one structured message.
ConcMessages ==
    { StrVal(<<>>), StrVal(<<"p">>),
      Obj(Caps(SerRaises, SerOk(D)), NoAttr, SerAbsent, SerAbsent, SerOk(S)) }

InitConc == InitWith({"s1", "s2"}, ConcMessages)

SpecConc == InitConc /\ [][Next]_vars

\* ------------------------------------------------------- reading a trace
\* A line reached a destination: sendall or stderr.write went through.
IsEmit(ev) == ev.ok /\ ev.e \in {"sendall", "stderr"}

Emits(tr) == {i \in DOMAIN tr : IsEmit(tr[i])}

Events(tr, e) == {i \in DOMAIN tr : tr[i].e = e}

MirrorEvents(tr) == {i \in DOMAIN tr : tr[i].e # "orig"}

\* The calls of _tcp_write in a trace, and the events of one call: those up
\* to the next call, failed serialization or original operation.
Calls(tr) == Events(tr, "tcp_write")

Boundary(ev) == ev.e \in {"tcp_write", "serialize", "orig"}

CallEvents(tr, i) ==
    {j \in DOMAIN tr : j > i /\ \A h \in (i + 1)..j : ~Boundary(tr[h])}

\* The call has ended: control is no longer inside _tcp_write, or the trace
\* has gone on to something else.
InTcpWrite(s) == pc[s] \in {"get_socket", "connect", "sendall", "stderr"}

CallEnded(s, i) ==
    \/ ~InTcpWrite(s)
    \/ \E h \in DOMAIN trace[s] : h > i /\ Boundary(trace[s][h])

Done(s) == pc[s] = "done"

\* -------------------------------------------------------------------- claims
\* C1: a failure inside the mirroring path (a serialization call raising,
\* connect or sendall failing, stderr failing) never keeps the original
\* operation from being executed exactly once, nor its result from reaching
\* the caller of the wrapped operation.
C1_MirrorFailureIsolated ==
    \A s \in Sess :
        Done(s) =>
            /\ Cardinality(Events(trace[s], "orig")) = 1
            /\ result[s] = origRes[s]

\* C2: the wrapped operation returns what the unwrapped operation returns and
\* hands the original operation the value it was given: its result is never
\* an error of the mirroring path, and once the original operation has run
\* the result is the original's and the argument is the caller's value.
C2_SameAsUnwrapped ==
    \A s \in Sess :
        Done(s) =>
            /\ result[s].exc \notin MirrorErrors
            /\ origRes[s] # NoResult => result[s] = origRes[s]
            /\ (op[s] # "receive" /\ Events(trace[s], "orig") # {}) => origArg[s] = data[s]

\* C3: an error raised by the original receive, send or write reaches the
\* caller unchanged, and a failed original receive mirrors nothing.
C3_OriginalErrorPropagates ==
    \A s \in Sess :
        (Done(s) /\ origRes[s].k = "raise") =>
            /\ result[s] = origRes[s]
            /\ result[s].exc \in OrigErrors
            /\ op[s] = "receive" => MirrorEvents(trace[s]) = {}

C3_Witness ==
    \E s \in Sess : Done(s) /\ origRes[s].k = "raise" /\ op[s] = "receive"

\* C4: while no connect has ever succeeded, every wrapped send, write and
\* receive completes normally, the line of a non-empty message is on stderr,
\* nothing was written to a socket and _log_socket is unset after the call.
C4_UnreachableSinkFallsBack ==
    \A s \in Sess :
        (Done(s) /\ ~everConnected /\ origRes[s].k # "raise") =>
            /\ result[s].k = "ret"
            /\ Events(trace[s], "sendall") = {}
            /\ \A m \in Inst : _log_socket[m] = None
            /\ data[s].truthy =>
                  \E i \in Calls(trace[s]) :
                      \E j \in CallEvents(trace[s], i) :
                          /\ trace[s][j].e = "stderr"
                          /\ trace[s][j].ok
                          /\ trace[s][j].text = ErrText(trace[s][i].text)

\* C5: whatever connect and sendall do, every call of _tcp_write that has
\* ended and that stderr.write did not raise out of delivered its line to
\* exactly one destination: the socket when sendall went through, stderr
\* otherwise; after a failed sendall the line of that call is on stderr and
\* _log_socket is unset.
C5_OneDestination ==
    \A s \in Sess :
        /\ \A i \in Calls(trace[s]) :
              LET ev == CallEvents(trace[s], i)
                  sent == {j \in ev : trace[s][j].e = "sendall" /\ trace[s][j].ok}
                  errs == {j \in ev : trace[s][j].e = "stderr" /\ trace[s][j].ok}
                  raised == {j \in ev : trace[s][j].e = "stderr" /\ ~trace[s][j].ok}
                  failed == {j \in ev : trace[s][j].e = "sendall" /\ ~trace[s][j].ok}
              IN  (CallEnded(s, i) /\ raised = {}) =>
                      /\ Cardinality(sent) + Cardinality(errs) = 1
                      /\ \A j \in sent : trace[s][j].text = Frame(trace[s][i].text)
                      /\ \A j \in errs : trace[s][j].text = ErrText(trace[s][i].text)
                      /\ failed # {} => errs # {}
        /\ pc[s] = "stderr" => _log_socket[level[s]] = None

C5_Witness ==
    \E s \in Sess :
        \E i \in Calls(trace[s]) :
            \E j, h \in CallEvents(trace[s], i) :
                /\ trace[s][j].e = "sendall" /\ ~trace[s][j].ok
                /\ trace[s][h].e = "stderr" /\ trace[s][h].ok /\ h > j

C7_MirroredOnce ==
    \A s \in Sess :
        (Done(s) /\ data[s].truthy /\ result[s].k = "ret") =>
            Cardinality(Emits(trace[s])) = 1

\* C8: a falsy value is never mirrored (no serialization, no connect, no
\* write to the socket or to stderr) on receive, send or write, and the
\* original operation is still executed once and its result returned.
C8_FalsyNotMirrored ==
    \A s \in Sess :
        ~data[s].truthy =>
            /\ MirrorEvents(trace[s]) = {}
            /\ ~InTcpWrite(s)
            /\ Done(s) =>
                  /\ Cardinality(Events(trace[s], "orig")) = 1
                  /\ result[s] = origRes[s]

C8_Witness ==
    \E s \in Sess :
        /\ Done(s) /\ op[s] = "send" /\ data[s].type = "bytes" /\ ~data[s].truthy
        /\ origRes[s].k = "ret"

\* C9: on send and on write, the original operation is invoked with a
\* non-empty value only after the line of that value was emitted, to the
\* socket or to stderr.
C9_MirrorBeforeDelegate ==
    \A s \in Sess :
        (op[s] \in {"send", "write"} /\ data[s].truthy) =>
            \A i \in Events(trace[s], "orig") :
                \E c \in Calls(trace[s]) :
                    \E j \in CallEvents(trace[s], c) \cap Emits(trace[s]) :
                        /\ j < i
                        /\ SubSeq(trace[s][c].text, 1, Len(OUTPUT)) = OUTPUT
                        /\ trace[s][j].text \in {Frame(trace[s][c].text), ErrText(trace[s][c].text)}

C9_Witness ==
    \E s \in Sess :
        /\ op[s] = "write" /\ data[s].truthy
        /\ Events(trace[s], "orig") # {}

\* C10: the encoder is total: for a value whose default string coercion
\* works, no failing serialization capability makes the encoding raise.
C10_EncoderTotal ==
    \A s \in Sess :
        data[s].str.st = "ok" => result[s].exc # "SerializationError"

\* C11: the line mirrored for a non-empty value carries a non-empty payload
\* after its tag, a received text of whitespace only included.
C11_PayloadNonEmpty ==
    \A s \in Sess :
        \A i \in Calls(trace[s]) :
            Len(trace[s][i].text) > Len(Tag(op[s]))

\* The call of _tcp_write that event j of a trace belongs to.
CallOf(tr, j) == CHOOSE i \in Calls(tr) : j \in CallEvents(tr, i)

\* The texts a handler can hand to _tcp_write for a value: its tag, then the
\* text of one of the serialization attempts.
LinesOf(k, v) ==
    {Tag(k) \o PlanOf(k, v).attempts[a].text : a \in DOMAIN PlanOf(k, v).attempts}

C13_FailedConnectionNotReused ==
    /\ \A m \in Inst :
           lastWrite[m] \in {"failed", "closed"} =>
               /\ _log_socket[m] # None => sockState[_log_socket[m]] = "created"
               /\ \A s \in Sess : level[s] = m => pc[s] # "sendall"
    /\ \A s \in Sess :
           \A i \in Calls(trace[s]) :
               \A j, h \in CallEvents(trace[s], i) :
                   ( /\ trace[s][j].e = "socket"
                     /\ trace[s][j].text \in {<<"failed">>, <<"closed">>}
                     /\ trace[s][h].e = "sendall" )
                   => \E g \in CallEvents(trace[s], i) :
                          j < g /\ g < h /\ trace[s][g].e = "connect" /\ trace[s][g].ok

\* The call after a failed write has connected anew and written.
C13_Witness ==
    \E s \in Sess :
        \E i \in Calls(trace[s]) :
            \E j, h \in CallEvents(trace[s], i) :
                /\ trace[s][j].e = "socket" /\ trace[s][j].text = <<"failed">>
                /\ trace[s][h].e = "sendall" /\ trace[s][h].ok

\* The session is inside the mirroring of a handler: from `if data:` to the
\* return of _tcp_write.
Mirroring(s) == pc[s] \in {"mirror", "encode", "get_socket", "connect", "sendall", "stderr"}

\* The sockets that exist: created and not yet dropped.
LiveSockets == {i \in SockIds : sockState[i] # "free"}

\* C14: with several sessions running at once, at most one is inside its
\* mirroring at any time, a _tcp_write about to write holds the connected
\* socket that _log_socket holds (never one that another sender has
\* invalidated), and each loaded module has at most one live socket.
C14_MirrorCallsNotInterleaved ==
    /\ Cardinality({s \in Sess : Mirroring(s)}) <= 1
    /\ \A s \in Sess :
           pc[s] = "sendall" =>
               /\ sock[s] = _log_socket[level[s]]
               /\ sockState[sock[s]] \in {"connected", "peer_closed"}
    /\ Cardinality(LiveSockets) <= installs

\* One session is suspended in its original send after mirroring, the other
\* is about to write on the connection stored in _log_socket.
C14_Witness ==
    \E s, t \in Sess :
        /\ s # t
        /\ pc[s] = "orig_wait" /\ op[s] = "send" /\ Emits(trace[s]) # {}
        /\ pc[t] = "sendall"
        /\ trace[t][Len(trace[t])].e = "stored"

\* The state of a module's connection: no socket stored, a socket stored and
\* not connected yet, a connected socket stored.
ConnState(ls, ss, m) ==
    IF ls[m] = None THEN "UNSET"
    ELSE IF ss[ls[m]] = "created" THEN "CONNECTING"
    ELSE "CONNECTED"

\* C15: the connection state only moves UNSET -> CONNECTING -> CONNECTED and
\* back to UNSET on an error; a call of _tcp_write makes at most one connect
\* and at most one sendall; after a failed connect _log_socket is None; and
\* an unconnected socket is stored only while its connect is under way.
C15_ConnectionLifecycle ==
    /\ [][\A m \in Inst :
              <<ConnState(_log_socket, sockState, m), ConnState(_log_socket', sockState', m)>> \in
                  { <<"UNSET", "UNSET">>, <<"CONNECTING", "CONNECTING">>, <<"CONNECTED", "CONNECTED">>,
                    <<"UNSET", "CONNECTING">>, <<"CONNECTING", "CONNECTED">>,
                    <<"CONNECTING", "UNSET">>, <<"CONNECTED", "UNSET">> }]_vars
    /\ [](\A s \in Sess :
              \A i \in Calls(trace[s]) :
                  LET ev == CallEvents(trace[s], i) IN
                  /\ Cardinality({j \in ev : trace[s][j].e = "connect"}) <= 1
                  /\ Cardinality({j \in ev : trace[s][j].e = "sendall"}) <= 1
                  /\ ( /\ \A h \in Calls(trace[s]) : h <= i
                       /\ \E j \in ev : trace[s][j].e = "connect" /\ ~trace[s][j].ok )
                     => _log_socket[trace[s][i].m] = None)
    /\ [](\A m \in Inst :
              ConnState(_log_socket, sockState, m) = "CONNECTING" =>
                  \E s \in Sess : pc[s] = "connect" /\ level[s] = m)

\* A connect has just failed and the call goes on to stderr with no socket stored.
C15_Witness ==
    \E s \in Sess :
        /\ pc[s] = "stderr"
        /\ trace[s][Len(trace[s])].e = "connect"
        /\ ~trace[s][Len(trace[s])].ok
        /\ _log_socket[level[s]] = None

\* C16: a receive calls the original receive first and once, mirrors the
\* value it obtained, tagged INPUT, only after the original has returned it,
\* and then returns that value to its caller.
C16_ReceiveMirrorReturn ==
    \A s \in Sess :
        op[s] = "receive" =>
            /\ trace[s] # <<>> => trace[s][1].e = "orig"
            /\ Cardinality(Events(trace[s], "orig")) <= 1
            /\ MirrorEvents(trace[s]) # {} => (origRes[s].k = "ret" /\ data[s] = origRes[s].v)
            /\ \A i \in Calls(trace[s]) :
                   SubSeq(trace[s][i].text, 1, Len(INPUT)) = INPUT
            /\ (Done(s) /\ origRes[s].k = "ret") => result[s] = Ret(origRes[s].v)

\* C17: entering a session, leaving it and tearing it down mid-flight leave
\* _log_socket and its socket as they are; a connected socket leaves
\* _log_socket only in a step in which sendall on it fails; and a session
\* that finds the connection of an ended session writes on it without
\* creating or connecting a socket.
C17_ConnectionOutlivesSessions ==
    /\ [][\A s \in Sess :
              ((pc[s] = "out") # (pc'[s] = "out")) =>
                  (_log_socket' = _log_socket /\ sockState' = sockState)]_vars
    /\ [][\A m \in Inst :
              ( /\ ConnState(_log_socket, sockState, m) = "CONNECTED"
                /\ ConnState(_log_socket', sockState', m) # "CONNECTED" )
              => \E s \in Sess :
                     /\ pc[s] = "sendall" /\ level[s] = m
                     /\ Len(trace'[s]) = Len(trace[s]) + 1
                     /\ trace'[s][Len(trace'[s])].e = "sendall"
                     /\ ~trace'[s][Len(trace'[s])].ok]_vars
    /\ [](\A m \in Inst :
              carried[m] # "no" => ConnState(_log_socket, sockState, m) = "CONNECTED")
    /\ [][\A s \in Sess :
              (pc[s] = "get_socket" /\ pc'[s] # "get_socket" /\ carried[level[s]] # "no") =>
                  /\ pc'[s] = "sendall"
                  /\ sock'[s] = _log_socket[level[s]]
                  /\ _log_socket' = _log_socket]_vars

\* A session is about to write on the stored connection that an earlier
\* session, torn down mid-flight, left behind.
C17_Witness ==
    \E s \in Sess :
        /\ pc[s] = "sendall"
        /\ trace[s][Len(trace[s])].e = "stored"
        /\ carried[level[s]] = "cancel"

\* C18: receive, send and write encode a value by the same strategy, the
\* first applicable of text, raw binary (decoded), message.root, root,
\* canonical serialization, structure dump, str(): the line mirrored for a
\* value that is not a text carries what that order, which is the order of
\* logged_send, yields for it.
C18_SameStrategyEverywhere ==
    \A s \in Sess :
        \A i \in Calls(trace[s]) :
            data[s].type # "str" =>
                trace[s][i].text \in
                    {Tag(op[s]) \o SendPlan(data[s]).attempts[a].text :
                        a \in {b \in DOMAIN SendPlan(data[s]).attempts :
                                  SendPlan(data[s]).attempts[b].st = "ok"}}

\* The text after the tag of a mirrored line.
Payload(k, l) == SubSeq(l, Len(Tag(k)) + 1, Len(l))

\* C19 as stated: a received text is mirrored with its trailing whitespace
\* removed and its leading whitespace kept; a sent or written text is
\* mirrored unchanged.
C19_OnlyTrailingTrimmed ==
    \A s \in Sess :
        \A i \in Calls(trace[s]) :
            data[s].type = "str" =>
                LET p == Payload(op[s], trace[s][i].text)
                    v == data[s].val
                IN  IF op[s] = "receive"
                    THEN /\ Len(p) <= Len(v)
                         /\ p = SubSeq(v, 1, Len(p))
                         /\ \A h \in (Len(p) + 1)..Len(v) : IsSpace(v[h])
                         /\ p # <<>> => ~IsSpace(p[Len(p)])
                    ELSE p = v

\* C19 amended: a received text is mirrored with the whitespace at both of
\* its ends removed, leading as well as trailing; a sent or written text is
\* mirrored unchanged.
C19_BothEndsTrimmed ==
    \A s \in Sess :
        \A i \in Calls(trace[s]) :
            data[s].type = "str" =>
                LET p == Payload(op[s], trace[s][i].text)
                    v == data[s].val
                IN  IF op[s] = "receive"
                    THEN \E a \in 0..Len(v) :
                             /\ a + Len(p) <= Len(v)
                             /\ p = SubSeq(v, a + 1, a + Len(p))
                             /\ \A h \in 1..a : IsSpace(v[h])
                             /\ \A h \in (a + Len(p) + 1)..Len(v) : IsSpace(v[h])
                             /\ p # <<>> => (~IsSpace(p[1]) /\ ~IsSpace(p[Len(p)]))
                    ELSE p = v

\* The received text " p " has been mirrored as "INPUT: p".
C19_Witness ==
    \E s \in Sess :
        \E i \in Calls(trace[s]) :
            /\ op[s] = "receive"
            /\ data[s].val = <<" ", "p", " ">>
            /\ trace[s][i].text = <<"I", "N", "P", "U", "T", ":", " ", "p">>

\* C20: logged_send has no suspension point between its mirroring and the
\* call of the original send: while the OUTPUT line of a send is out and its
\* original send is not invoked, that coroutine alone runs, no other OUTPUT
\* line is emitted, and the original send about to be invoked is the one of
\* the earliest such line; so OUTPUT lines and original sends come in the
\* same order.
C20_OutputOrderIsSendOrder ==
    /\ Len(unsent) <= 1
    /\ \A h \in DOMAIN unsent : running = unsent[h]
    /\ \A s \in Sess :
           (op[s] = "send" /\ pc[s] = "orig_call" /\ data[s].truthy) => unsent = <<s>>

\* Two sends in flight: one suspended in its original send after its line
\* went out, the other with its line out and about to invoke its original.
C20_Witness ==
    \E s, t \in Sess :
        /\ s # t
        /\ op[s] = "send" /\ pc[s] = "orig_wait" /\ Emits(trace[s]) # {}
        /\ op[t] = "send" /\ pc[t] = "orig_call" /\ unsent = <<t>>

====
